---- MODULE Spec2Model ----
(***************************************************************************)
(* Request admission control of acacia-store: the in-memory counter store  *)
(* (MemoryStore) and the gate middleware built by                          *)
(* createRateLimitMiddleware, src/src/middleware/rateLimit.ts.             *)
(*                                                                         *)
(* The runtime is single-threaded and cooperative: a block of code without *)
(* an await runs to completion, so each action below is one such block.    *)
(* A request suspends at `await next()` (line 147 / 185); other requests,  *)
(* the sweep timer, administrative resets and the clock may act before it  *)
(* resumes. Date.now() is read as one value within one block.              *)
(*                                                                         *)
(* A route is a chain of gates followed by its handler. `await next()` of  *)
(* a gate calls the next gate synchronously, and when the handler settles  *)
(* or a gate throws, the finally blocks of the gates the request passed    *)
(* run in consecutive microtasks, before the I/O of any other request      *)
(* completes: the gates of a chain run as one block on the way in and as   *)
(* one block on the way out; requests interleave while a handler runs.     *)
(*                                                                         *)
(* All gates share the one store that getStore returns (lines 103-111),    *)
(* and a key generator may return any string, so two gates can address the *)
(* same entry (as the general and the API-key policy do with `user:<id>`). *)
(***************************************************************************)
EXTENDS Integers, Sequences, FiniteSets, Bags, TLC

----------------------------------------------------------------------------
\* Bounds of the model.
NumReq == 2             \* requests that arrive in one behaviour
NumKeys == 2            \* distinct strings the key generators return
TickMs == 500           \* the clock advances in steps of TickMs
MaxTime == 1000         \* last clock value explored
ShortWindowMs == 500    \* windowMs of gate 1
LongWindowMs == 1500    \* windowMs of gate 2
MaxRequestsLow == 1     \* maxRequests of gate 1
MaxRequestsHigh == 2    \* maxRequests of gate 2

\* Program constants.
MsPerSec == 1000        \* Math.ceil(x / 1000)
TooManyRequests == 429  \* new HTTPException(429, ...)
ErrorFloor == 400       \* statusCode < 400 / statusCode >= 400
InternalError == 500    \* err instanceof HTTPException ? err.status : 500

Keys == 1..NumKeys
Gates == 1..2           \* the middlewares createRateLimitMiddleware returned
NoHeader == -1          \* a header the gate did not set

VARIABLES
  now,       \* Date.now()
  store,     \* MemoryStore.store: a Map from key to RateLimitEntry
  cfg,       \* the RateLimitConfig each gate was created with
  inflight,  \* the requests suspended at an await, as a bag of their states
  arrived,   \* number of requests that entered the first gate
  win,       \* history, per key: the window the claims speak of
  ev,        \* history: what the block that ran last did
  req,       \* history: the last request through the server as wired
  unswept,   \* history: the store and the last block, had no sweep ever run
  globalStore, \* the module's `let globalStore`: a MemoryStore or null
  heap,      \* the MemoryStore objects constructed so far
  proc,      \* the server process: running, or asked to exit
  tally,     \* history, per key: what became of the requests of the window
  db         \* the extensions table, as far as the guarded routes use it

\* the state the specifications of the gates leave alone
rest == <<globalStore, heap, proc, tally, db>>

vars == <<now, store, cfg, inflight, arrived, win, ev, req, unswept, rest>>

----------------------------------------------------------------------------
\* Math.ceil(a / b) for b > 0
CeilDiv(a, b) == -((-a) \div b)

Max(a, b) == IF a >= b THEN a ELSE b

\* a delete that empties the Map
MapClear(s, key) == << >>

\* Map.delete(key)
MapDelete(s, key) == [k \in DOMAIN s \ {key} |-> s[k]]

\* Map.set(key, e)
MapSet(s, key, e) == [k \in DOMAIN s \cup {key} |-> IF k = key THEN e ELSE s[k]]

\* an entry that is expired from the instant of its reset time on
ExpiredAtReset(entry, t) == entry.resetTime <= t

\* entry.resetTime < Date.now()
Expired(entry, t) == entry.resetTime < t

\* a sweep that also deletes the entries that expire at this instant
CleanupStoreAtReset(s, t) ==
  LET keep == {k \in DOMAIN s : s[k].resetTime > t} IN [k \in keep |-> s[k]]

\* MemoryStore.cleanup: the sweep deletes every expired entry
CleanupStore(s, t) ==
  LET keep == {k \in DOMAIN s : ~Expired(s[k], t)} IN [k \in keep |-> s[k]]

\* a lookup that finds nothing, as a reader that raced a writer would
StoreGetMiss(s, key, t) == [store |-> s, hit |-> FALSE]

\* MemoryStore.get: an expired entry is deleted and undefined is returned.
\* hit = an entry is returned; store = the map after the call.
StoreGet(s, key, t) ==
  IF key \in DOMAIN s /\ Expired(s[key], t)
    THEN [store |-> MapDelete(s, key), hit |-> FALSE]
    ELSE [store |-> s, hit |-> key \in DOMAIN s]

\* the RateLimitEntry of lines 62-66
NewEntry(t, windowMs) ==
  [count |-> 1, resetTime |-> t + windowMs, firstRequest |-> t]

\* an increment that moves the reset time with every call
StoreIncrementSliding(s, key, windowMs, t) ==
  IF key \in DOMAIN s /\ ~Expired(s[key], t)
    THEN [store |-> [s EXCEPT ![key].count = @ + 1,
                              ![key].resetTime = t + windowMs],
          created |-> FALSE]
    ELSE [store |-> MapSet(s, key, NewEntry(t, windowMs)), created |-> TRUE]

\* an increment that carries the old count into the new window
StoreIncrementAccumulating(s, key, windowMs, t) ==
  IF key \in DOMAIN s
    THEN [store |-> [s EXCEPT ![key].count = @ + 1,
                              ![key].resetTime =
                                 IF Expired(s[key], t) THEN t + windowMs ELSE @],
          created |-> Expired(s[key], t)]
    ELSE [store |-> MapSet(s, key, NewEntry(t, windowMs)), created |-> TRUE]

\* MemoryStore.increment
StoreIncrement(s, key, windowMs, t) ==
  LET g == StoreGet(s, key, t) IN
  IF g.hit
    THEN [store |-> [g.store EXCEPT ![key].count = @ + 1], created |-> FALSE]
    ELSE [store |-> MapSet(g.store, key, NewEntry(t, windowMs)),
          created |-> TRUE]

\* a decrement without the count > 0 test
StoreDecrementUnguarded(s, key, t) ==
  LET g == StoreGet(s, key, t) IN
  IF g.hit THEN [g.store EXCEPT ![key].count = @ - 1] ELSE g.store

\* const currentEntry = store.get(key);
\* if (currentEntry && currentEntry.count > 0) currentEntry.count--;
StoreDecrement(s, key, t) ==
  LET g == StoreGet(s, key, t) IN
  IF g.hit /\ g.store[key].count > 0
    THEN [g.store EXCEPT ![key].count = @ - 1]
    ELSE g.store

\* the remaining count without the floor at 0
RemainingUnclamped(maxRequests, count) == maxRequests - count

\* Math.max(0, maxRequests - entry.count)
Remaining(maxRequests, count) == Max(0, maxRequests - count)

\* Math.ceil(entry.resetTime / 1000)
ResetHeader(resetTime) == CeilDiv(resetTime, MsPerSec)

\* Math.ceil((entry.resetTime - now) / 1000)
RetryAfter(resetTime, t) == CeilDiv(resetTime - t, MsPerSec)

\* a gate that lets one request more through than the limit
ExceededAboveLimit(count, maxRequests) == count > maxRequests + 1

\* a gate that rejects the request that reaches the limit
ExceededAtLimit(count, maxRequests) == count >= maxRequests

\* if (entry.count > maxRequests)
Exceeded(count, maxRequests) == count > maxRequests

\* the statusCode the gate's try/catch observes: c.res.status after a
\* normal return, err.status of an HTTPException, 500 for any other fault
StatusCode(thrown, status) ==
  IF thrown = "other" THEN InternalError ELSE status

\* skipSuccessfulRequests && statusCode && statusCode < 400
DecrementOnSuccess(c, statusCode) ==
  c.skipSuccessfulRequests /\ statusCode # 0 /\ statusCode < ErrorFloor

\* a failure branch that does not look at the status
DecrementOnFailureAnyStatus(c, statusCode) == c.skipFailedRequests

\* skipFailedRequests && statusCode && statusCode >= 400
DecrementOnFailure(c, statusCode) ==
  c.skipFailedRequests /\ statusCode # 0 /\ statusCode >= ErrorFloor

\* the finally block of lines 193-209
Compensate(s, key, t, c, statusCode) ==
  LET s1 == IF DecrementOnSuccess(c, statusCode)
              THEN StoreDecrement(s, key, t) ELSE s
  IN IF DecrementOnFailure(c, statusCode)
       THEN StoreDecrement(s1, key, t) ELSE s1

----------------------------------------------------------------------------
\* The configurations createRateLimitMiddleware is called with: gate 1 with
\* every combination of the compensation flags, gate 2 with neither (as the
\* built-in policies).
Configs(g) ==
  IF g = 1
    THEN [windowMs : {ShortWindowMs}, maxRequests : {MaxRequestsLow},
          skipSuccessfulRequests : BOOLEAN, skipFailedRequests : BOOLEAN]
    ELSE [windowMs : {LongWindowMs}, maxRequests : {MaxRequestsHigh},
          skipSuccessfulRequests : {FALSE}, skipFailedRequests : {FALSE}]

\* The chains of gates a route can mount, outermost gate first.
Paths == {<<1>>, <<2>>, <<1, 2>>}

\* A request before its first gate. key and skipped are what each gate holds
\* across `await next()`; within is history: the gate found
\* entry.count <= maxRequests.
NewRequest(path) ==
  [pc |-> "gate", path |-> path,
   key |-> [g \in Gates |-> 0], skipped |-> [g \in Gates |-> FALSE],
   within |-> [g \in Gates |-> FALSE]]

\* History of one gate in the block that ran last: lines 144-179.
\* prevReset: resetTime of the entry the Map held before the call (-1: none);
\* n, clean: the window's history right after the call.
NoGate ==
  [ran |-> FALSE, skipped |-> FALSE, key |-> 0, prevReset |-> -1,
   created |-> FALSE, used |-> 0, resetTime |-> -1, n |-> 0, clean |-> TRUE,
   limit |-> NoHeader, remaining |-> NoHeader, reset |-> NoHeader,
   usedHeader |-> NoHeader, retryAfter |-> NoHeader,
   rejected |-> FALSE, calledNext |-> FALSE]

\* History of the finally block of one gate in the block that ran last.
\* due: a decrement branch was taken; comp: what the count went down by.
NoUnwind ==
  [ran |-> FALSE, skipped |-> FALSE, key |-> 0, seen |-> 0, due |-> FALSE,
   prevReset |-> -1, liveBefore |-> FALSE, countBefore |-> 0, comp |-> 0]

\* History of the block that ran last (kind = "none": no gate code ran).
NoEvent ==
  [kind |-> "none", path |-> << >>, handled |-> FALSE, thrownIn |-> "none",
   status |-> 0, thrownOut |-> "none",
   gate |-> [g \in Gates |-> NoGate], un |-> [g \in Gates |-> NoUnwind]]

\* History of one key: the calls of increment since the window opened.
\* clean: no compensating decrement was due on the key since then.
NoWindow == [open |-> FALSE, n |-> 0, first |-> -1, end |-> -1, clean |-> TRUE]

\* the history of a window that has elapsed is dropped
WinElapse(w, t) == IF w.open /\ w.end < t THEN NoWindow ELSE w

WinIncrement(w, windowMs, t) ==
  IF w.open /\ w.end >= t
    THEN [w EXCEPT !.n = @ + 1]
    ELSE [open |-> TRUE, n |-> 1, first |-> t, end |-> t + windowMs,
          clean |-> TRUE]

Init ==
  /\ now = 0
  /\ store = << >>
  /\ cfg \in {c \in [Gates -> UNION {Configs(g) : g \in Gates}] :
                \A g \in Gates : c[g] \in Configs(g)}
  /\ inflight = EmptyBag
  /\ arrived = 0
  /\ win = [k \in Keys |-> NoWindow]
  /\ ev = NoEvent
  /\ req = << >>
  /\ unswept = [store |-> << >>, ev |-> NoEvent]
  /\ globalStore = 0
  /\ heap = << >>
  /\ proc = "running"
  /\ tally = << >>
  /\ db = << >>

----------------------------------------------------------------------------
\* Lines 147-148 and 186-209: gate g resumes when its `await next()` has
\* settled with (thrown, status). w is the block so far: the store, the
\* windows' history, the history of the block and the request.
UnwindGate(w, g, thrown, status) ==
  LET key == w.q.key[g]
      c == cfg[g]
      code == StatusCode(thrown, status)
      live == StoreGet(w.store, key, now).hit
      after == Compensate(w.store, key, now, c, code)
      due == DecrementOnSuccess(c, code) \/ DecrementOnFailure(c, code)
  IN
  IF w.q.skipped[g]
    THEN [w EXCEPT !.ev.un[g] = [NoUnwind EXCEPT !.skipped = TRUE]]
    ELSE [w EXCEPT
            !.store = after,
            !.win = IF due THEN [w.win EXCEPT ![key].clean = FALSE] ELSE w.win,
            !.ev.un[g] =
               [ran |-> TRUE, skipped |-> FALSE, key |-> key, seen |-> code,
                due |-> due,
                prevReset |-> IF key \in DOMAIN w.store
                                THEN w.store[key].resetTime ELSE -1,
                liveBefore |-> live,
                countBefore |-> IF live THEN w.store[key].count ELSE 0,
                comp |-> IF live THEN w.store[key].count - after[key].count
                                 ELSE 0]]

\* The gates at positions i, i-1, ..., 1 of the request's path resume in
\* turn; none of them catches the error (line 192 throws it again).
RECURSIVE UnwindFrom(_, _, _, _)
UnwindFrom(w, i, thrown, status) ==
  IF i = 0 THEN [w EXCEPT !.q.pc = "done", !.ev.thrownOut = thrown]
  ELSE UnwindFrom(UnwindGate(w, w.q.path[i], thrown, status),
                  i - 1, thrown, status)

\* a gate that counts the request before it asks the skip predicate
RunGateCountsSkipped(w, g, key, skip) ==
  [w EXCEPT !.store = StoreIncrement(w.store, key, cfg[g].windowMs, now).store,
            !.q.skipped[g] = TRUE,
            !.ev.gate[g] = [NoGate EXCEPT !.ran = TRUE, !.skipped = TRUE,
                                          !.calledNext = TRUE]]

\* Lines 144-185: gate g up to its `await next()` or its throw.
\* key = keyGenerator(c), skip = skip(c). rejected: the gate threw.
RunGate(w, g, key, skip) ==
  LET c == cfg[g]
      inc == StoreIncrement(w.store, key, c.windowMs, now)
      entry == inc.store[key]
      wk == WinIncrement(w.win[key], c.windowMs, now)
      e == [NoGate EXCEPT
              !.ran = TRUE, !.key = key, !.n = wk.n, !.clean = wk.clean,
              !.prevReset = IF key \in DOMAIN w.store
                              THEN w.store[key].resetTime ELSE -1,
              !.created = inc.created, !.used = entry.count,
              !.resetTime = entry.resetTime,
              !.limit = c.maxRequests,
              !.remaining = Remaining(c.maxRequests, entry.count),
              !.reset = ResetHeader(entry.resetTime),
              !.usedHeader = entry.count]
      counted == [w EXCEPT
              !.store = inc.store,
              !.win[key] = wk,
              !.q.key[g] = key,
              !.q.within[g] = (entry.count <= c.maxRequests)]
  IN
  IF skip
    THEN [w EXCEPT !.q.skipped[g] = TRUE,
                   !.ev.gate[g] = [NoGate EXCEPT !.ran = TRUE, !.skipped = TRUE,
                                                 !.calledNext = TRUE]]
    ELSE IF Exceeded(entry.count, c.maxRequests)
      THEN [counted EXCEPT
              !.rejected = TRUE,
              !.ev.gate[g] = [e EXCEPT !.rejected = TRUE,
                   !.retryAfter = RetryAfter(entry.resetTime, now)]]
      ELSE [counted EXCEPT !.ev.gate[g] = [e EXCEPT !.calledNext = TRUE]]

\* a chain whose gates call next() whatever they decided
RECURSIVE RunChainThrough(_, _, _, _)
RunChainThrough(w, i, keys, skips) ==
  IF i > Len(w.q.path)
    THEN [w EXCEPT !.q.pc = "handler", !.ev.handled = TRUE]
    ELSE LET g == w.q.path[i] IN
         RunChainThrough(RunGate(w, g, keys[g], skips[g]), i + 1, keys, skips)

\* The chain from position i on: each gate calls the next one, the last one
\* the handler; a gate that throws unwinds the gates before it.
RECURSIVE RunChain(_, _, _, _)
RunChain(w, i, keys, skips) ==
  IF i > Len(w.q.path)
    THEN [w EXCEPT !.q.pc = "handler", !.ev.handled = TRUE]
    ELSE LET g == w.q.path[i]
             w2 == RunGate(w, g, keys[g], skips[g])
         IN IF w2.rejected
              THEN UnwindFrom(w2, i - 1, "http", TooManyRequests)
              ELSE RunChain(w2, i + 1, keys, skips)

\* A request arrives on a route whose gates are `path` and runs them.
Arrive(path, keys, skips) ==
  /\ arrived < NumReq
  /\ arrived' = arrived + 1
  /\ LET w == RunChain([store |-> store, win |-> win, rejected |-> FALSE,
                        ev |-> [NoEvent EXCEPT !.kind = "arrive", !.path = path],
                        q |-> NewRequest(path)],
                       1, keys, skips)
         u == RunChain([store |-> unswept.store, win |-> win,
                        rejected |-> FALSE,
                        ev |-> [NoEvent EXCEPT !.kind = "arrive", !.path = path],
                        q |-> NewRequest(path)],
                       1, keys, skips)
     IN /\ store' = w.store
        /\ win' = w.win
        /\ ev' = w.ev
        /\ unswept' = [store |-> u.store, ev |-> u.ev]
        /\ inflight' = IF w.q.pc = "done" THEN inflight
                       ELSE inflight (+) SetToBag({w.q})
  /\ UNCHANGED <<now, cfg, req, rest>>

\* The route handler settles: it returns a response with a status, or throws
\* an HTTPException with a status, or throws another fault; the gates of the
\* request resume, innermost first.
Settle(q, thrown, status) ==
  /\ q \in BagToSet(inflight)
  /\ LET w == UnwindFrom(
                [store |-> store, win |-> win, rejected |-> FALSE,
                 ev |-> [NoEvent EXCEPT !.kind = "settle", !.path = q.path,
                            !.handled = TRUE, !.thrownIn = thrown,
                            !.status = status],
                 q |-> q],
                Len(q.path), thrown, status)
         u == UnwindFrom(
                [store |-> unswept.store, win |-> win, rejected |-> FALSE,
                 ev |-> [NoEvent EXCEPT !.kind = "settle", !.path = q.path,
                            !.handled = TRUE, !.thrownIn = thrown,
                            !.status = status],
                 q |-> q],
                Len(q.path), thrown, status)
     IN /\ store' = w.store
        /\ win' = w.win
        /\ ev' = w.ev
        /\ unswept' = [store |-> u.store, ev |-> u.ev]
  /\ inflight' = inflight (-) SetToBag({q})
  /\ UNCHANGED <<now, cfg, arrived, req, rest>>

\* resetRateLimit(key): store.reset(key)
Reset(key) ==
  /\ store' = MapDelete(store, key)
  /\ unswept' = [store |-> MapDelete(unswept.store, key), ev |-> NoEvent]
  /\ win' = [win EXCEPT ![key] = NoWindow]
  /\ ev' = NoEvent
  /\ UNCHANGED <<now, cfg, inflight, arrived, req, rest>>

\* MemoryStore.resetAll
ResetAll ==
  /\ store' = << >>
  /\ unswept' = [store |-> << >>, ev |-> NoEvent]
  /\ win' = [k \in Keys |-> NoWindow]
  /\ ev' = NoEvent
  /\ UNCHANGED <<now, cfg, inflight, arrived, req, rest>>

\* the setInterval callback of the constructor
Cleanup ==
  /\ store' = CleanupStore(store, now)
  /\ unswept' = [unswept EXCEPT !.ev = NoEvent]
  /\ ev' = NoEvent
  /\ UNCHANGED <<now, cfg, inflight, arrived, win, req, rest>>

\* the clock
Tick ==
  /\ now + TickMs <= MaxTime
  /\ now' = now + TickMs
  /\ win' = [k \in Keys |-> WinElapse(win[k], now + TickMs)]
  /\ unswept' = [unswept EXCEPT !.ev = NoEvent]
  /\ ev' = NoEvent
  /\ UNCHANGED <<store, cfg, inflight, arrived, req, rest>>

\* what a handler settles with: c.res.status, or the fault it throws
Outcomes == {<<"none", 200>>, <<"none", 404>>, <<"other", 0>>}

\* what the key generators and skip predicates of a path's gates return
\* (0 and FALSE for a gate that is not on the path)
KeysOf(path) ==
  {ks \in [Gates -> Keys \cup {0}] :
     \A g \in Gates : (ks[g] = 0) <=> (\A i \in 1..Len(path) : path[i] # g)}

SkipsOf(path) ==
  {sk \in [Gates -> BOOLEAN] :
     \A g \in Gates : sk[g] => (\E i \in 1..Len(path) : path[i] = g)}

Next ==
  \/ \E path \in Paths : \E keys \in KeysOf(path), skips \in SkipsOf(path) :
       Arrive(path, keys, skips)
  \/ \E q \in BagToSet(inflight), oc \in Outcomes : Settle(q, oc[1], oc[2])
  \/ \E key \in Keys : Reset(key)
  \/ ResetAll
  \/ Cleanup
  \/ Tick

Spec == Init /\ [][Next]_vars

----------------------------------------------------------------------------
\* The server as wired: app.use("*", rateLimitMiddleware(serverConfig)) in
\* front of every route, then the middlewares each route mounts, then its
\* handler. The built-in policies have no compensation flag, so nothing
\* touches the store once the gates of a request have run; a request is
\* followed here from its first gate to its response in one step (the owner
\* lookup and the handler read the database only, which is an input).

\* Bounds of the wired server.
MaxArrivals == 7             \* requests that arrive in one behaviour
MaxMixedArrivals == 2        \* the same, when they go to any route
GeneralMaxLow == 1           \* RATE_LIMIT_MAX_REQUESTS the server is run with
GeneralMaxHigh == 6          \* (two settings)
ElapseMs == 600000           \* the clock advances in steps of ElapseMs
MaxElapsed == 1200000        \* last clock value explored

\* Program constants of the policies.
GeneralWindowMs == 900000    \* RATE_LIMIT_WINDOW_MS || "900000"
StrictWindowMs == 300000     \* 5 * 60 * 1000
StrictMaxRequests == 10
AuthWindowMs == 900000       \* 15 * 60 * 1000
AuthMaxRequests == 5
UploadWindowMs == 3600000    \* 60 * 60 * 1000
UploadMaxRequests == 50
ApiKeyWindowMs == 3600000    \* 60 * 60 * 1000
ApiKeyMaxRequests == 1000
NotFound == 404              \* new HTTPException(404, ...) of the owner lookups
Unauthenticated == 401
Forbidden == 403
Ok == 200

NoValue == "undefined"       \* an absent header, c.get(...) of an unset name

\* c.req.header("x-forwarded-for"): the comma-separated items, trimmed;
\* << >> when the header is absent or empty. The other two headers hold one
\* address or are absent.
HeaderSets ==
  { [forwarded |-> <<"A", "B">>, realIp |-> "B",     remoteAddr |-> NoValue],
    [forwarded |-> << >>,        realIp |-> "B",     remoteAddr |-> "A"],
    [forwarded |-> << >>,        realIp |-> NoValue, remoteAddr |-> "A"],
    [forwarded |-> << >>,        realIp |-> NoValue, remoteAddr |-> NoValue] }

\* c.get("user") before an authentication middleware has set it
NoUser == [id |-> NoValue, role |-> NoValue]

\* The principals the authentication middleware can attach (User: id, role).
Principals ==
  { [id |-> "u1", role |-> "user"], [id |-> "u2", role |-> "developer"],
    [id |-> "a1", role |-> "admin"] }

\* defaultKeyGenerator: `ip:${ip}`; a key is the sequence of the pieces the
\* template literal joins.
defaultKeyGenerator(c) ==
  LET ip == IF c.forwarded # << >> THEN Head(c.forwarded)
            ELSE IF c.realIp # NoValue THEN c.realIp
            ELSE IF c.remoteAddr # NoValue THEN c.remoteAddr
            ELSE "unknown"
  IN <<"ip", ip>>

Policies == {"general", "strict", "auth", "upload", "apikey"}

\* keyGenerator of authRateLimit with the endpoint in the key: one counter
\* per client IP and endpoint
KeyOfPerEndpoint(p, c) ==
  IF p = "auth" THEN <<"auth", c.path>> \o defaultKeyGenerator(c)
  ELSE IF p = "general" /\ c.user # NoUser THEN <<"user", c.user.id>>
  ELSE IF p = "upload" /\ c.user # NoUser THEN <<"upload", c.user.id>>
  ELSE IF p = "upload" THEN <<"upload">> \o defaultKeyGenerator(c)
  ELSE defaultKeyGenerator(c)

\* keyGenerator of each built-in policy
KeyOf(p, c) ==
  CASE p = "general" ->
         IF c.user # NoUser THEN <<"user", c.user.id>>
         ELSE defaultKeyGenerator(c)
    [] p = "strict" ->
         IF c.user # NoUser
           THEN <<"strict", c.user.id>> \o defaultKeyGenerator(c)
           ELSE <<"strict">> \o defaultKeyGenerator(c)
    [] p = "auth" -> <<"auth">> \o defaultKeyGenerator(c)
    [] p = "upload" ->
         IF c.user # NoUser THEN <<"upload", c.user.id>>
         ELSE <<"upload">> \o defaultKeyGenerator(c)
    [] p = "apikey" ->
         IF c.apiKey # NoValue THEN <<"apikey", c.apiKey>>
         ELSE IF c.user # NoUser THEN <<"user", c.user.id>>
         ELSE defaultKeyGenerator(c)

\* serverConfig of the server entry, as far as the general policy reads it
ServerConfigs ==
  [rateLimitWindowMs : {GeneralWindowMs},
   rateLimitMaxRequests : {GeneralMaxLow, GeneralMaxHigh}]

\* skip of each built-in policy (defaultSkip where none is given)
SkipOf(p, c) ==
  CASE p = "general" ->
         (c.user # NoUser /\ c.user.role = "admin") \/ c.path = "/health"
    [] p = "strict" -> c.user # NoUser /\ c.user.role = "admin"
    [] p = "auth" -> FALSE
    [] p = "upload" ->
         c.user # NoUser /\ c.user.role \in {"admin", "developer"}
    [] p = "apikey" -> FALSE

WindowOf(p) ==
  CASE p = "general" -> cfg.rateLimitWindowMs
    [] p = "strict" -> StrictWindowMs
    [] p = "auth" -> AuthWindowMs
    [] p = "upload" -> UploadWindowMs
    [] p = "apikey" -> ApiKeyWindowMs

MaxOf(p) ==
  CASE p = "general" -> cfg.rateLimitMaxRequests
    [] p = "strict" -> StrictMaxRequests
    [] p = "auth" -> AuthMaxRequests
    [] p = "upload" -> UploadMaxRequests
    [] p = "apikey" -> ApiKeyMaxRequests

\* the policies created with an onLimitReached callback
HasHook(p) == p \in {"general", "auth"}

\* History of one policy's gate in the last request.
NoPolicyGate ==
  [ran |-> FALSE, skipped |-> FALSE, key |-> << >>, prevReset |-> -1,
   prevCount |-> 0, used |-> 0, resetTime |-> -1, rejected |-> FALSE,
   retryAfter |-> NoHeader, hookCalls |-> 0]

\* Lines 144-179 for policy p: the store afterwards and the gate's history.
PolicyGate(s, p, c, t) ==
  LET key == KeyOf(p, c)
      inc == StoreIncrement(s, key, WindowOf(p), t)
      entry == inc.store[key]
      over == Exceeded(entry.count, MaxOf(p))
  IN
  IF SkipOf(p, c)
    THEN [store |-> s,
          gate |-> [NoPolicyGate EXCEPT !.ran = TRUE, !.skipped = TRUE]]
    ELSE [store |-> inc.store,
          gate |-> [ran |-> TRUE, skipped |-> FALSE, key |-> key,
                    prevReset |-> IF key \in DOMAIN s
                                    THEN s[key].resetTime ELSE -1,
                    prevCount |-> IF key \in DOMAIN s THEN s[key].count ELSE 0,
                    used |-> entry.count, resetTime |-> entry.resetTime,
                    rejected |-> over,
                    retryAfter |-> IF over THEN RetryAfter(entry.resetTime, t)
                                   ELSE NoHeader,
                    hookCalls |-> IF over /\ HasHook(p) THEN 1 ELSE 0]]

\* an owner lookup that returns the missing row's owner column (undefined)
\* instead of throwing
GetOwnerUndefined(row) == [thrown |-> FALSE, status |-> 0, ownerId |-> row]

\* getExtensionOwner / getInstallationOwner / getReviewOwner: the owner
\* column of the row with the id of the request, HTTPException(404) when
\* there is no such row. row = the owner id stored, NoValue = no row.
GetOwner(row) ==
  IF row = NoValue
    THEN [thrown |-> TRUE, status |-> NotFound, ownerId |-> NoValue]
    ELSE [thrown |-> FALSE, status |-> 0, ownerId |-> row]

\* a guard that looks the owner up before it asks for a principal
requireOwnershipLookupFirst(user, row) ==
  LET o == GetOwner(row) IN
  IF o.thrown
    THEN [lookup |-> TRUE, allowed |-> FALSE, status |-> o.status]
  ELSE IF user = NoUser
    THEN [lookup |-> TRUE, allowed |-> FALSE, status |-> Unauthenticated]
  ELSE IF user.role = "admin" \/ user.id = o.ownerId
    THEN [lookup |-> TRUE, allowed |-> TRUE, status |-> 0]
  ELSE [lookup |-> TRUE, allowed |-> FALSE, status |-> Forbidden]

\* requireOwnershipOrAdmin(getOwner): no principal, then the lookup, then
\* the admin role, then the owner comparison.
requireOwnershipOrAdmin(user, row) ==
  IF user = NoUser
    THEN [lookup |-> FALSE, allowed |-> FALSE, status |-> Unauthenticated]
    ELSE LET o == GetOwner(row) IN
         IF o.thrown
           THEN [lookup |-> TRUE, allowed |-> FALSE, status |-> o.status]
         ELSE IF user.role = "admin"
           THEN [lookup |-> TRUE, allowed |-> TRUE, status |-> 0]
         ELSE IF user.id = o.ownerId
           THEN [lookup |-> TRUE, allowed |-> TRUE, status |-> 0]
         ELSE [lookup |-> TRUE, allowed |-> FALSE, status |-> Forbidden]

\* History of the guard in the last request.
NoGuard == [ran |-> FALSE, lookup |-> FALSE, allowed |-> FALSE, status |-> 0]

\* the routes with the general gate registered after the route's own
\* middlewares instead of in front of them
RoutesGateLast ==
  [p \in {"/health", "/login", "/register", "/extensions/:id",
          "/extensions/:id/versions"} |->
     CASE p = "/health" -> <<"rateLimitMiddleware", "handler">>
       [] p \in {"/login", "/register"} ->
            <<"authRateLimit", "rateLimitMiddleware", "handler">>
       [] p = "/extensions/:id" ->
            <<"authMiddleware", "requireOwnershipOrAdmin",
              "rateLimitMiddleware", "handler">>
       [] p = "/extensions/:id/versions" ->
            <<"authMiddleware", "uploadRateLimit", "requireOwnershipOrAdmin",
              "rateLimitMiddleware", "handler">>]

\* the routes with no guard in front of the mutation handlers
RoutesUnguarded ==
  [p \in {"/health", "/login", "/register", "/extensions/:id",
          "/extensions/:id/versions"} |->
     CASE p = "/health" -> <<"rateLimitMiddleware", "handler">>
       [] p \in {"/login", "/register"} ->
            <<"rateLimitMiddleware", "authRateLimit", "handler">>
       [] p = "/extensions/:id" ->
            <<"rateLimitMiddleware", "authMiddleware", "handler">>
       [] p = "/extensions/:id/versions" ->
            <<"rateLimitMiddleware", "authMiddleware", "uploadRateLimit",
              "handler">>]

\* The middlewares in front of each handler, outermost first.
Routes ==
  [p \in {"/health", "/login", "/register", "/extensions/:id",
          "/extensions/:id/versions"} |->
     CASE p = "/health" -> <<"rateLimitMiddleware", "handler">>
       [] p \in {"/login", "/register"} ->
            <<"rateLimitMiddleware", "authRateLimit", "handler">>
       [] p = "/extensions/:id" ->
            <<"rateLimitMiddleware", "authMiddleware",
              "requireOwnershipOrAdmin", "handler">>
       [] p = "/extensions/:id/versions" ->
            <<"rateLimitMiddleware", "authMiddleware", "uploadRateLimit",
              "requireOwnershipOrAdmin", "handler">>]

\* the policy of a gate middleware
PolicyOf(stage) ==
  CASE stage = "rateLimitMiddleware" -> "general"
    [] stage = "authRateLimit" -> "auth"
    [] stage = "uploadRateLimit" -> "upload"

\* A request before its first middleware: c is the context the middlewares
\* share, c0 the context as it arrived, order the middlewares that ran, in
\* order.
NewExchange(s, path, headers, apiKey, cred, row) ==
  LET c == [path |-> path, forwarded |-> headers.forwarded,
            realIp |-> headers.realIp, remoteAddr |-> headers.remoteAddr,
            user |-> NoUser, apiKey |-> apiKey]
  IN [store |-> s, c |-> c, c0 |-> c,
      cred |-> cred, row |-> row, order |-> << >>,
      gate |-> [p \in Policies |-> NoPolicyGate], guard |-> NoGuard,
      handled |-> FALSE, status |-> 0]

\* no request has been answered since the clock moved
NoExchange ==
  NewExchange(<< >>, NoValue,
              [forwarded |-> << >>, realIp |-> NoValue, remoteAddr |-> NoValue],
              NoValue, NoUser, NoValue)

\* The middlewares of the route from position i on; each one calls next()
\* or throws, and whatever is thrown becomes the response status.
RECURSIVE RunRoute(_, _, _)
RunRoute(x, i, handlerStatus) ==
  LET stage == Routes[x.c.path][i]
      y == [x EXCEPT !.order = Append(@, stage)]
  IN
  CASE stage = "handler" ->
         [y EXCEPT !.handled = TRUE, !.status = handlerStatus]
    [] stage = "authMiddleware" ->
         RunRoute([y EXCEPT !.c.user = x.cred], i + 1, handlerStatus)
    [] stage = "requireOwnershipOrAdmin" ->
         LET g == requireOwnershipOrAdmin(x.c.user, x.row)
             z == [y EXCEPT !.guard = [ran |-> TRUE, lookup |-> g.lookup,
                                       allowed |-> g.allowed,
                                       status |-> g.status]]
         IN IF g.allowed THEN RunRoute(z, i + 1, handlerStatus)
            ELSE [z EXCEPT !.status = g.status]
    [] OTHER ->
         LET p == PolicyOf(stage)
             r == PolicyGate(x.store, p, x.c, now)
             z == [y EXCEPT !.store = r.store, !.gate[p] = r.gate]
         IN IF r.gate.rejected THEN [z EXCEPT !.status = TooManyRequests]
            ELSE RunRoute(z, i + 1, handlerStatus)

\* A request arrives and is answered.
Request(path, headers, apiKey, cred, row, handlerStatus) ==
  /\ arrived < MaxArrivals
  /\ arrived' = arrived + 1
  /\ LET x == RunRoute(NewExchange(store, path, headers, apiKey, cred, row),
                       1, handlerStatus)
     IN /\ store' = x.store
        /\ req' = [x EXCEPT !.store = << >>]
  /\ UNCHANGED <<now, cfg, inflight, win, ev, unswept, rest>>

\* the clock of the wired server
Elapse ==
  /\ now + ElapseMs <= MaxElapsed
  /\ now' = now + ElapseMs
  /\ req' = NoExchange
  /\ UNCHANGED <<store, cfg, inflight, arrived, win, ev, unswept, rest>>

WiredInit ==
  /\ now = 0
  /\ store = << >>
  /\ cfg \in ServerConfigs
  /\ inflight = EmptyBag
  /\ arrived = 0
  /\ win = << >>
  /\ ev = NoEvent
  /\ req = NoExchange
  /\ unswept = [store |-> << >>, ev |-> NoEvent]
  /\ globalStore = 0
  /\ heap = << >>
  /\ proc = "running"
  /\ tally = << >>
  /\ db = << >>

\* c.get("apiKey").id, when an API-key middleware has set one
ApiKeys == {NoValue, "k1"}

\* the middlewares of a route
Mounts(path, stage) == \E i \in 1..Len(Routes[path]) : Routes[path][i] = stage

\* What a request can carry. The credentials are read by authMiddleware
\* only and the row by the owner lookup only: they are drawn for the routes
\* that mount them.
CredsOf(path) ==
  IF Mounts(path, "authMiddleware") THEN Principals \cup {NoUser}
  ELSE IF Mounts(path, "authRateLimit")
    THEN {u \in Principals : u.role = "admin"} \cup {NoUser}
  ELSE {NoUser}

RowsOf(path) ==
  IF Mounts(path, "requireOwnershipOrAdmin") THEN {NoValue, "u1"} ELSE {NoValue}

\* requests to any route, a few of them
WiredNext ==
  \/ \E path \in DOMAIN Routes :
       \E headers \in HeaderSets, apiKey \in ApiKeys, cred \in CredsOf(path),
          row \in RowsOf(path) :
         /\ arrived < MaxMixedArrivals
         /\ Request(path, headers, apiKey, cred, row, Ok)
  \/ Elapse

\* requests to the login and register endpoints, as many as exceed the
\* authentication policy
LoginNext ==
  \/ \E path \in {"/login", "/register"} :
       \E headers \in HeaderSets, cred \in CredsOf(path) :
         Request(path, headers, NoValue, cred, NoValue, Ok)
  \/ Elapse

WiredSpec == WiredInit /\ [][WiredNext]_vars

LoginSpec == WiredInit /\ [][LoginNext]_vars

----------------------------------------------------------------------------
\* The gates the block that ran last entered and did not skip.
Counted(g) == ev.gate[g].ran /\ ~ev.gate[g].skipped

OnPath(path, g) == \E i \in 1..Len(path) : path[i] = g

Live(k) == k \in DOMAIN store /\ store[k].resetTime >= now

\* C1: a non-skipped request is rejected exactly when the count right after
\* its own increment is greater than maxRequests; the request that brings
\* the count to maxRequests is admitted, and a rejected request is the one
\* whose gate threw instead of calling next().
C1_RejectedIffAboveLimit ==
  \A g \in Gates :
    Counted(g) =>
      /\ ev.gate[g].rejected <=> (ev.gate[g].used > cfg[g].maxRequests)
      /\ ev.gate[g].rejected <=> ~ev.gate[g].calledNext
      /\ ev.gate[g].used = cfg[g].maxRequests => ev.gate[g].calledNext

\* C1 witness: a request is rejected with the count one above the limit
\* while the request that was admitted at the limit is still in flight.
C1_Witness ==
  \E g \in Gates :
    /\ Counted(g)
    /\ ev.gate[g].rejected
    /\ ev.gate[g].used = cfg[g].maxRequests + 1
    /\ \E q \in BagToSet(inflight) :
         q.key[g] = ev.gate[g].key /\ q.within[g]

\* C2: for every key, the N calls of increment made while one window is live,
\* with no reset and no compensating decrement, leave count = N with resetTime
\* and firstRequest as the first call set them; the first increment after the
\* window elapsed replaces the entry with count 1 and resetTime = now + windowMs.
C2_CountIsNumberOfIncrements ==
  /\ \A k \in Keys :
       Live(k) =>
         /\ win[k].open
         /\ store[k].resetTime = win[k].end
         /\ store[k].firstRequest = win[k].first
         /\ win[k].clean => store[k].count = win[k].n
  /\ \A g \in Gates :
       Counted(g) =>
         /\ ev.gate[g].created <=>
              (ev.gate[g].prevReset = -1 \/ ev.gate[g].prevReset < now)
         /\ ev.gate[g].created =>
              /\ ev.gate[g].used = 1
              /\ ev.gate[g].resetTime = now + cfg[g].windowMs
         /\ ~ev.gate[g].created => ev.gate[g].resetTime = ev.gate[g].prevReset

\* C2 witness: an elapsed entry that the Map still held is replaced, and
\* another key has been incremented twice in its window.
C2_Witness ==
  /\ \E g \in Gates :
       Counted(g) /\ ev.gate[g].created /\ ev.gate[g].prevReset >= 0
  /\ \E k \in Keys : Live(k) /\ win[k].clean /\ store[k].count = 2

\* C3: a gate whose skip predicate matches creates and changes no entry,
\* emits no rate-limit header and calls next(): in a block of gates, the
\* entries that differ afterwards are those of the keys of the gates that
\* did not skip.
C3_SkipLeavesStore ==
  [][ev'.kind = "arrive" =>
       /\ \A k \in Keys :
            (k \in DOMAIN store' /\ k \in DOMAIN store /\ store'[k] = store[k])
            \/ (k \notin DOMAIN store' /\ k \notin DOMAIN store)
            \/ \E g \in Gates :
                 /\ ev'.gate[g].ran /\ ~ev'.gate[g].skipped
                 /\ ev'.gate[g].key = k
       /\ \A g \in Gates :
            (ev'.gate[g].ran /\ ev'.gate[g].skipped) =>
              /\ ev'.gate[g].calledNext
              /\ ev'.gate[g].limit = NoHeader
              /\ ev'.gate[g].remaining = NoHeader
              /\ ev'.gate[g].reset = NoHeader
              /\ ev'.gate[g].usedHeader = NoHeader
              /\ ev'.gate[g].retryAfter = NoHeader
     ]_vars

\* C3 witness: the only gate of a request skipped while the store held
\* entries, and the handler was invoked.
C3_Witness ==
  /\ ev.kind = "arrive"
  /\ Len(ev.path) = 1
  /\ ev.gate[ev.path[1]].skipped
  /\ ev.handled
  /\ \E k \in Keys : Live(k)

\* C4: the handler runs only when every gate on the request's path has
\* skipped or has incremented its counter and found count <= maxRequests;
\* a request a gate rejected never reaches the handler or a later gate.
C4_HandlerOnlyAfterAdmission ==
  /\ \A q \in BagToSet(inflight) :
       /\ q.pc = "handler"
       /\ \A g \in Gates : OnPath(q.path, g) => (q.skipped[g] \/ q.within[g])
  /\ ev.kind = "arrive" =>
       /\ ev.handled <=> (\A g \in Gates : ~ev.gate[g].rejected)
       /\ ev.handled =>
            \A g \in Gates : OnPath(ev.path, g) =>
              /\ ev.gate[g].ran
              /\ ev.gate[g].skipped \/ ev.gate[g].used <= cfg[g].maxRequests
       /\ \A i \in 1..Len(ev.path) :
            ev.gate[ev.path[i]].rejected =>
              \A j \in (i + 1)..Len(ev.path) : ~ev.gate[ev.path[j]].ran

\* C4 witness: the first gate of a two-gate route rejects; the second gate
\* does not run and the handler is not invoked.
C4_Witness ==
  /\ ev.kind = "arrive"
  /\ Len(ev.path) = 2
  /\ ev.gate[ev.path[1]].rejected
  /\ ~ev.gate[ev.path[2]].ran
  /\ ~ev.handled

\* C5: of the increments of a key within one window, under every
\* interleaving of the requests, exactly the first creates the entry and
\* every other one increments that entry: the k-th increment observes
\* count k.
C5_IncrementAtomic ==
  \A g \in Gates :
    Counted(g) =>
      /\ ev.gate[g].created <=> (ev.gate[g].n = 1)
      /\ ev.gate[g].clean => ev.gate[g].used = ev.gate[g].n

\* C5 witness: two requests are suspended in their handlers, both counted
\* under one key; the second one found the entry of the first.
C5_Witness ==
  /\ BagCardinality(inflight) = 2
  /\ \E g \in Gates :
       /\ Counted(g) /\ ~ev.gate[g].created /\ ev.gate[g].used = 2
       /\ \A q \in BagToSet(inflight) : q.key[g] = ev.gate[g].key

\* C6 as stated: whatever a gate increments or decrements is an entry whose
\* resetTime is strictly after the current time, the instant
\* now = resetTime included.
C6_NeverActsAtResetTime ==
  /\ \A g \in Gates :
       (Counted(g) /\ ~ev.gate[g].created) => ev.gate[g].resetTime > now
  /\ \A g \in Gates :
       (ev.un[g].ran /\ ev.un[g].liveBefore) => ev.un[g].prevReset > now

\* C6 as amended: get returns the entry exactly when the Map holds one with
\* resetTime >= now, and removes an entry with resetTime < now; an increment
\* or a compensating decrement never acts on an entry with resetTime < now,
\* and at the instant now = resetTime the entry is still acted upon.
C6_ExpiryIsStrict ==
  /\ \A g \in Gates :
       Counted(g) =>
         /\ ev.gate[g].created <=>
              (ev.gate[g].prevReset = -1 \/ ev.gate[g].prevReset < now)
         /\ ~ev.gate[g].created =>
              ev.gate[g].resetTime >= now /\ ev.gate[g].used >= 1
  /\ \A g \in Gates :
       ev.un[g].ran =>
         /\ ev.un[g].liveBefore <=> (ev.un[g].prevReset >= now)
         /\ ev.un[g].comp > 0 => ev.un[g].liveBefore
         /\ (ev.un[g].due /\ ev.un[g].prevReset >= 0 /\ ev.un[g].prevReset < now)
              => ev.un[g].key \notin DOMAIN store

\* C6 witness: a gate increments an entry at the instant now = resetTime.
C6_Witness ==
  \E g \in Gates :
    Counted(g) /\ ~ev.gate[g].created /\ ev.gate[g].resetTime = now

\* C7: a compensating decrement never makes a count negative, changes no
\* count and creates no entry when the key has no live entry, and leaves a
\* count of 0 at 0; every stored count is >= 0.
C7_DecrementFloorsAndSparesExpired ==
  /\ \A k \in DOMAIN store : store[k].count >= 0
  /\ \A g \in Gates :
       ev.un[g].ran =>
         /\ ~ev.un[g].liveBefore =>
              /\ ev.un[g].comp = 0
              /\ ~Live(ev.un[g].key)
              /\ ev.un[g].prevReset = -1 => ev.un[g].key \notin DOMAIN store
         /\ (ev.un[g].liveBefore /\ ev.un[g].countBefore = 0) =>
              /\ ev.un[g].comp = 0
              /\ store[ev.un[g].key].count = 0

\* C7 witness: a decrement is due when the handler settles and the entry
\* of the key, still in the Map, has expired.
C7_Witness ==
  \E g \in Gates :
    /\ ev.un[g].ran /\ ev.un[g].due /\ ~ev.un[g].liveBefore
    /\ ev.un[g].prevReset >= 0

\* The gates whose `await next()` settled in the block that ran last: those
\* of a request whose handler settled, and those before a gate that threw.
Unwound(g) ==
  \/ ev.kind = "settle" /\ OnPath(ev.path, g) /\ ~ev.un[g].skipped
  \/ /\ ev.kind = "arrive"
     /\ ~ev.gate[g].skipped
     /\ \E i \in 1..Len(ev.path) : \E j \in 1..(i - 1) :
          ev.gate[ev.path[i]].rejected /\ ev.path[j] = g

\* the status and the fault those gates are to observe
SettledStatus ==
  IF ev.kind = "arrive" THEN TooManyRequests
  ELSE IF ev.thrownIn = "other" THEN InternalError ELSE ev.status

SettledFault == IF ev.kind = "arrive" THEN "http" ELSE ev.thrownIn

CompensationDue(g) ==
  \/ cfg[g].skipSuccessfulRequests /\ SettledStatus < ErrorFloor
  \/ cfg[g].skipFailedRequests /\ SettledStatus >= ErrorFloor

\* C8 as stated: on every exit path the compensating step of an admitted
\* request lowers the key's live entry by exactly one when
\* (skipSuccessfulRequests and status < 400) or (skipFailedRequests and
\* status >= 400), and by zero otherwise; the fault is thrown again.
C8_DecrementsExactlyOne ==
  \A g \in Gates :
    Unwound(g) =>
      /\ ev.un[g].ran
      /\ ev.un[g].seen = SettledStatus
      /\ ev.un[g].liveBefore =>
           ev.un[g].comp = (IF CompensationDue(g) THEN 1 ELSE 0)
      /\ ev.thrownOut = SettledFault

\* C8 as amended: the same, the decrement being by one only while the live
\* entry's count is above 0 (a live entry at count 0 stays at 0).
C8_DecrementsOnceAboveZero ==
  \A g \in Gates :
    Unwound(g) =>
      /\ ev.un[g].ran
      /\ ev.un[g].seen = SettledStatus
      /\ ev.un[g].comp =
           (IF CompensationDue(g) /\ ev.un[g].liveBefore
               /\ ev.un[g].countBefore > 0 THEN 1 ELSE 0)
      /\ ev.thrownOut = SettledFault

\* C8 witness: with both flags set, a handler throws a fault; the live entry
\* goes down by one and the fault is thrown again.
C8_Witness ==
  \E g \in Gates :
    /\ cfg[g].skipSuccessfulRequests /\ cfg[g].skipFailedRequests
    /\ ev.kind = "settle" /\ ev.thrownIn = "other"
    /\ Unwound(g) /\ ev.un[g].comp = 1
    /\ ev.thrownOut = "other"

\* C9: every non-skipped gate invocation emits Limit = maxRequests, Used =
\* the count right after its increment, Remaining = max(0, maxRequests -
\* count), between 0 and maxRequests and 0 on a rejection, and Reset = the
\* entry's resetTime in whole epoch seconds, rounded up.
C9_Headers ==
  \A g \in Gates :
    Counted(g) =>
      LET e == ev.gate[g] IN
      /\ e.limit = cfg[g].maxRequests
      /\ e.usedHeader = e.used
      /\ e.clean => e.usedHeader = e.n
      /\ e.remaining = (IF e.used >= cfg[g].maxRequests THEN 0
                        ELSE cfg[g].maxRequests - e.used)
      /\ e.remaining >= 0 /\ e.remaining <= cfg[g].maxRequests
      /\ e.rejected => e.remaining = 0
      /\ e.reset * MsPerSec >= e.resetTime
      /\ (e.reset - 1) * MsPerSec < e.resetTime

\* C9 witness: an admitted request with Remaining above 0 and a Reset that
\* is rounded up.
C9_Witness ==
  \E g \in Gates :
    /\ Counted(g) /\ ~ev.gate[g].rejected
    /\ ev.gate[g].remaining > 0
    /\ ev.gate[g].reset * MsPerSec > ev.gate[g].resetTime

\* C10 as stated: Retry-After is emitted on a rejection and on no other
\* request; it is ceil((resetTime - now) / 1000) for the entry the request
\* was counted in, at least 0, at most ceil(windowMs / 1000) of the
\* rejecting policy, and consistent with the resetTime the first request of
\* the window fixed.
C10_RetryAfterWithinWindow ==
  \A g \in Gates :
    ev.gate[g].ran =>
      LET e == ev.gate[g] IN
      /\ (e.retryAfter # NoHeader) <=> e.rejected
      /\ e.rejected =>
           /\ e.retryAfter * MsPerSec >= e.resetTime - now
           /\ (e.retryAfter - 1) * MsPerSec < e.resetTime - now
           /\ e.retryAfter >= 0
           /\ e.resetTime = win[e.key].end
           /\ e.retryAfter * MsPerSec < cfg[g].windowMs + MsPerSec

----------------------------------------------------------------------------
\* Claims about the server as wired.

\* the gates of the last request that counted it
CountedBy(p) == req.gate[p].ran /\ ~req.gate[p].skipped

\* C11: the first non-skipped request after the resetTime of an entry is
\* admitted with count 1 in a new window, however many requests the old
\* window counted or rejected; an increment within the window, rejected or
\* not, leaves resetTime as the creation of the entry fixed it.
C11_AdmittedAfterReset ==
  \A p \in Policies :
    CountedBy(p) =>
      LET g == req.gate[p] IN
      /\ (g.prevReset >= 0 /\ g.prevReset < now) =>
           /\ g.used = 1
           /\ ~g.rejected
           /\ g.resetTime = now + WindowOf(p)
      /\ (g.prevReset >= now) =>
           /\ g.resetTime = g.prevReset
           /\ g.used = g.prevCount + 1
      /\ g.rejected => g.resetTime = g.prevReset

\* C11 witness: a login counter that rejected its sixth request is at 1
\* again for the first request after its reset time, which is admitted.
C11_Witness ==
  /\ CountedBy("auth")
  /\ req.gate["auth"].prevCount > AuthMaxRequests
  /\ req.gate["auth"].prevReset < now
  /\ req.gate["auth"].used = 1
  /\ req.handled

----------------------------------------------------------------------------
\* What a block lets the requests observe: everything its history holds but
\* the reset time of the entry the Map held before.
Observable(e) ==
  [e EXCEPT !.gate = [g \in Gates |-> [e.gate[g] EXCEPT !.prevReset = -1]],
            !.un = [g \in Gates |-> [e.un[g] EXCEPT !.prevReset = -1]]]

\* C12: with the sweep running at any points and with no sweep at all, every
\* block decides, reports and compensates the same; the swept store holds
\* the entries of the unswept one except entries whose resetTime has passed,
\* each unchanged.
C12_SweepNotObservable ==
  /\ Observable(ev) = Observable(unswept.ev)
  /\ DOMAIN store \subseteq DOMAIN unswept.store
  /\ \A k \in DOMAIN unswept.store :
       IF k \in DOMAIN store THEN store[k] = unswept.store[k]
       ELSE unswept.store[k].resetTime < now

\* C12 witness: a request is counted under a key whose expired entry the
\* sweep had removed, and which the unswept store still held.
C12_Witness ==
  \E g \in Gates :
    /\ Counted(g) /\ ev.gate[g].created
    /\ ev.gate[g].prevReset = -1
    /\ unswept.ev.gate[g].prevReset >= 0

----------------------------------------------------------------------------
\* a request has been answered since the clock moved
Answered == req.order # << >>

\* C13 as stated: for every request, before and after the authentication
\* middleware has attached the principal, the keys two different built-in
\* policies derive are different.
C13_PolicyKeysDistinct ==
  Answered =>
    \A c \in {req.c0, req.c} :
      \A p \in Policies, q \in Policies :
        p # q => KeyOf(p, c) # KeyOf(q, c)

\* the principal of the last request: the one its route's authentication
\* middleware attaches, or would have attached had the request reached it
PrincipalOf == IF Mounts(req.c.path, "authMiddleware") THEN req.cred ELSE NoUser

\* C14 as stated: the general gate of the server skips a request whose
\* principal is an admin and a request to /health, neither counting nor
\* rejecting it, and counts every other request under the principal's id
\* when the request has a principal and under the client IP otherwise.
C14_GeneralSkipsAdminCountsPrincipal ==
  Answered =>
    LET g == req.gate["general"]
        exempt == PrincipalOf.role = "admin" \/ req.c.path = "/health"
    IN /\ g.ran
       /\ exempt => (g.skipped /\ ~g.rejected)
       /\ ~exempt =>
            /\ ~g.skipped
            /\ g.key = (IF PrincipalOf # NoUser THEN <<"user", PrincipalOf.id>>
                        ELSE defaultKeyGenerator(req.c))

\* the counter of the authentication policy for the client IP of the last
\* request
AuthKey(x) == <<"auth">> \o defaultKeyGenerator(x.c0)

Rank(stage) ==
  CASE stage = "rateLimitMiddleware" -> 1
    [] stage \in {"authRateLimit", "uploadRateLimit"} -> 2
    [] stage = "requireOwnershipOrAdmin" -> 3
    [] stage = "handler" -> 4
    [] OTHER -> 0

\* C16: for every request the middlewares that ran are the leading ones of
\* its route, the global gate first, an endpoint gate before the guard and
\* the guard before the handler. A gate that rejects is the last middleware
\* that ran: the guard made no owner lookup and the handler did not run;
\* when the global gate rejects, no entry other than its own key changed.
C16_FixedOrderNoLaterEffect ==
  [][ req'.order # << >> =>
        LET o == req'.order
            route == Routes[req'.c.path]
            general == req'.gate["general"]
        IN /\ o[1] = "rateLimitMiddleware"
           /\ Len(o) <= Len(route)
           /\ \A i \in 1..Len(o) : o[i] = route[i]
           /\ \A i, j \in 1..Len(o) :
                (i < j /\ Rank(o[i]) > 0 /\ Rank(o[j]) > 0) =>
                  Rank(o[i]) < Rank(o[j])
           /\ req'.handled <=> o = route
           /\ \A p \in Policies :
                req'.gate[p].rejected =>
                  /\ PolicyOf(o[Len(o)]) = p
                  /\ req'.status = TooManyRequests
                  /\ ~req'.guard.ran /\ ~req'.guard.lookup
                  /\ ~req'.handled
           /\ general.rejected =>
                /\ \A p \in Policies \ {"general"} : ~req'.gate[p].ran
                /\ DOMAIN store' = DOMAIN store \cup {general.key}
                /\ \A k \in DOMAIN store :
                     k # general.key => store'[k] = store[k]
    ]_vars

\* C16 witness: the global gate rejects a request to the upload route of a
\* principal whose upload counter stands at 1; the counter is still 1 and
\* neither the upload gate nor the guard nor the handler ran.
C16_Witness ==
  /\ req.order = <<"rateLimitMiddleware">>
  /\ req.c.path = "/extensions/:id/versions"
  /\ req.cred # NoUser
  /\ req.gate["general"].rejected
  /\ <<"upload", req.cred.id>> \in DOMAIN store
  /\ store[<<"upload", req.cred.id>>].count = 1

\* the routes whose handler changes a resource its owner or an admin may
\* change
Guarded(path) ==
  path \in {"/extensions/:id", "/extensions/:id/versions"}

C19_AnonymousUnauthenticated ==
  (Answered /\ req.guard.ran /\ req.c.user = NoUser) =>
    /\ ~req.guard.lookup
    /\ ~req.guard.allowed
    /\ req.guard.status = Unauthenticated
    /\ req.status = Unauthenticated
    /\ ~req.handled

\* C19 witness: an anonymous request for a resource that does not exist is
\* answered Unauthenticated, not NotFound.
C19_Witness ==
  /\ Answered
  /\ req.guard.ran
  /\ req.c.user = NoUser
  /\ req.row = NoValue
  /\ req.status = Unauthenticated

----------------------------------------------------------------------------
\* The gate with an onLimitReached callback. The callback is part of the
\* configuration createRateLimitMiddleware is called with; the gate calls it
\* synchronously and outside any try block.

MaxHookArrivals == 4    \* requests that arrive in one behaviour

\* config.onLimitReached: undefined, a callback that returns, a callback
\* that throws
HookKinds == {"none", "returns", "throws"}

HookConfigs ==
  [windowMs : {ShortWindowMs}, maxRequests : {MaxRequestsLow},
   onLimitReached : HookKinds]

\* History of the gate in the last request. exceeded: the test of line 167;
\* hookArgs: the key onLimitReached was called with; thrown: what the gate
\* threw ("none", "HTTPException" of line 176, "callback": the error of the
\* callback); status: the status of the HTTPException.
NoCall ==
  [ran |-> FALSE, skipped |-> FALSE, key |-> 0, used |-> 0,
   resetTime |-> -1, exceeded |-> FALSE, hookCalls |-> 0, hookArgs |-> << >>,
   retryAfter |-> NoHeader, thrown |-> "none", status |-> 0,
   calledNext |-> FALSE]

\* Lines 144-179 with the callback: the store afterwards and the history.
\* An error the callback throws leaves the gate at line 170, before
\* Retry-After is set (line 174) and before the 429 is thrown (line 176).
GateCall(s, c, key, skip, t) ==
  LET inc == StoreIncrement(s, key, c.windowMs, t)
      entry == inc.store[key]
      over == Exceeded(entry.count, c.maxRequests)
      e == [NoCall EXCEPT !.ran = TRUE, !.key = key, !.used = entry.count,
                          !.resetTime = entry.resetTime, !.exceeded = over]
  IN
  IF skip
    THEN [store |-> s,
          call |-> [NoCall EXCEPT !.ran = TRUE, !.skipped = TRUE,
                                  !.calledNext = TRUE]]
  ELSE IF ~over
    THEN [store |-> inc.store, call |-> [e EXCEPT !.calledNext = TRUE]]
  ELSE IF c.onLimitReached = "none"
    THEN [store |-> inc.store,
          call |-> [e EXCEPT !.retryAfter = RetryAfter(entry.resetTime, t),
                             !.thrown = "HTTPException",
                             !.status = TooManyRequests]]
  ELSE IF c.onLimitReached = "throws"
    THEN [store |-> inc.store,
          call |-> [e EXCEPT !.hookCalls = 1, !.hookArgs = <<key>>,
                             !.thrown = "callback"]]
  ELSE [store |-> inc.store,
        call |-> [e EXCEPT !.hookCalls = 1, !.hookArgs = <<key>>,
                           !.retryAfter = RetryAfter(entry.resetTime, t),
                           !.thrown = "HTTPException",
                           !.status = TooManyRequests]]

HookInit ==
  /\ now = 0
  /\ store = << >>
  /\ cfg \in HookConfigs
  /\ inflight = EmptyBag
  /\ arrived = 0
  /\ win = << >>
  /\ ev = NoEvent
  /\ req = NoCall
  /\ unswept = [store |-> << >>, ev |-> NoEvent]
  /\ globalStore = 0
  /\ heap = << >>
  /\ proc = "running"
  /\ tally = << >>
  /\ db = << >>

\* A request goes through the gate, up to its `await next()` or its throw.
HookRequest(key, skip) ==
  /\ arrived < MaxHookArrivals
  /\ arrived' = arrived + 1
  /\ LET r == GateCall(store, cfg, key, skip, now)
     IN /\ store' = r.store
        /\ req' = r.call
  /\ UNCHANGED <<now, cfg, inflight, win, ev, unswept, rest>>

HookTick ==
  /\ now + TickMs <= MaxTime
  /\ now' = now + TickMs
  /\ req' = NoCall
  /\ UNCHANGED <<store, cfg, inflight, arrived, win, ev, unswept, rest>>

HookNext ==
  \/ \E key \in Keys, skip \in BOOLEAN : HookRequest(key, skip)
  \/ HookTick

HookSpec == HookInit /\ [][HookNext]_vars

\* C20 as stated: the callback is called exactly once, with the key of the
\* request, when the gate rejects, and not at all when the gate admits or
\* skips; whatever the callback does, the rejected request fails with the
\* 429 HTTPException and Retry-After is set.
C20_HookOnceDecisionKept ==
  req.ran =>
    /\ (req.exceeded /\ cfg.onLimitReached # "none") =>
         req.hookCalls = 1 /\ req.hookArgs = <<req.key>>
    /\ (req.skipped \/ ~req.exceeded) => req.hookCalls = 0
    /\ req.exceeded =>
         /\ req.thrown = "HTTPException"
         /\ req.status = TooManyRequests
         /\ req.retryAfter = RetryAfter(req.resetTime, now)

----------------------------------------------------------------------------
\* The module as a whole: `let globalStore`, the MemoryStore objects it has
\* pointed at, the gates that closed over one of them, and the exported
\* administrative functions, which call getStore again each time.

MaxAdminArrivals == 2   \* requests that arrive in one behaviour
MaxStores == 2          \* MemoryStore objects constructed in one behaviour
AdminElapseMs == 300000 \* the clock advances in steps of AdminElapseMs
MaxAdminElapsed == 1200000  \* last clock value explored

DefaultMax == 100       \* const maxRequests = 100; // Default max

\* The MemoryStore the gates closed over: `const store = getStore(windowMs)`
\* ran for every built-in policy while the module was loaded, and the first
\* of these calls constructed the object.
GateStore == 1

\* new MemoryStore(windowMs): an empty Map and a running setInterval; the
\* argument is not used.
NewMemoryStore(windowMs) == [store |-> << >>, cleanupInterval |-> TRUE]

\* getStore(windowMs): globalStore and the heap afterwards, and the object
\* returned. 0 is null.
getStore(g, h, windowMs) ==
  IF g = 0
    THEN [globalStore |-> Len(h) + 1,
          heap |-> Append(h, NewMemoryStore(windowMs)),
          obj |-> Len(h) + 1]
    ELSE [globalStore |-> g, heap |-> h, obj |-> g]

\* stats that count an entry as active until the instant before its reset
\* time
getStatsStrict(s, t) ==
  [totalKeys |-> Cardinality(DOMAIN s),
   activeKeys |-> Cardinality({k \in DOMAIN s : s[k].resetTime > t})]

\* MemoryStore.getStats
getStats(s, t) ==
  [totalKeys |-> Cardinality(DOMAIN s),
   activeKeys |-> Cardinality({k \in DOMAIN s : s[k].resetTime >= t})]

\* getRateLimitStatus, lines 325-342, on the Map of the store it got: the
\* Map afterwards (store.get deletes an expired entry) and the result.
getRateLimitStatus(s, key, windowMs, t) ==
  LET g == StoreGet(s, key, t) IN
  IF ~g.hit
    THEN [store |-> g.store, count |-> 0, remaining |-> DefaultMax,
          resetTime |-> t + windowMs, isLimited |-> FALSE]
    ELSE [store |-> g.store, count |-> s[key].count,
          remaining |-> Max(0, DefaultMax - s[key].count),
          resetTime |-> s[key].resetTime,
          isLimited |-> s[key].count >= DefaultMax]

\* the policies the server mounts and the contexts their gates see: a
\* principal is attached only behind authMiddleware
MountedPolicies == {"general", "auth", "upload"}

AdminContexts(p) ==
  { [path |-> "/extensions/:id/versions", forwarded |-> << >>,
     realIp |-> NoValue, remoteAddr |-> ip, user |-> u, apiKey |-> NoValue] :
      ip \in {"A", "B"},
      u \in IF p = "upload" THEN {[id |-> "u1", role |-> "user"]}
            ELSE {NoUser} }

\* the keys an administrator can name, and the windows
AdminKeys == {KeyOf(p, c) : p \in MountedPolicies, c \in AdminContexts("general")}
               \cup {KeyOf("upload", c) : c \in AdminContexts("upload")}

AdminWindows == {AuthWindowMs, UploadWindowMs}

\* History of the last call: a request through a gate, or an administrative
\* function.
NoAdmin ==
  [kind |-> "none", policy |-> NoValue, key |-> << >>, windowMs |-> 0,
   obj |-> 0, gate |-> NoPolicyGate, remaining |-> NoHeader,
   totalKeys |-> 0, activeKeys |-> 0, count |-> 0, isLimited |-> FALSE]

AdminInit ==
  /\ now = 0
  /\ store = << >>
  /\ cfg \in ServerConfigs
  /\ inflight = EmptyBag
  /\ arrived = 0
  /\ win = << >>
  /\ ev = NoEvent
  /\ req = NoAdmin
  /\ unswept = [store |-> << >>, ev |-> NoEvent]
  /\ globalStore = GateStore
  /\ heap = <<NewMemoryStore(StrictWindowMs)>>
  /\ proc = "running"
  /\ tally = << >>
  /\ db = << >>

\* A request goes through the gate of policy p, which works on the
\* MemoryStore it closed over.
GateRequest(p, c) ==
  /\ proc = "running"
  /\ arrived < MaxAdminArrivals
  /\ arrived' = arrived + 1
  /\ LET r == PolicyGate(heap[GateStore].store, p, c, now)
     IN /\ heap' = [heap EXCEPT ![GateStore].store = r.store]
        /\ req' = [NoAdmin EXCEPT
                     !.kind = "request", !.policy = p, !.key = r.gate.key,
                     !.obj = GateStore, !.gate = r.gate,
                     !.remaining = IF r.gate.skipped THEN NoHeader
                                   ELSE Remaining(MaxOf(p), r.gate.used)]
  /\ UNCHANGED <<now, store, cfg, inflight, win, ev, unswept, globalStore,
                 proc, tally, db>>

\* resetRateLimit(key, windowMs)
ResetRateLimit(key, windowMs) ==
  /\ proc = "running"
  /\ LET g == getStore(globalStore, heap, windowMs)
     IN /\ Len(g.heap) <= MaxStores
        /\ globalStore' = g.globalStore
        /\ heap' = [g.heap EXCEPT ![g.obj].store = MapDelete(@, key)]
        /\ req' = [NoAdmin EXCEPT !.kind = "reset", !.key = key,
                                  !.windowMs = windowMs, !.obj = g.obj]
  /\ UNCHANGED <<now, store, cfg, inflight, arrived, win, ev, unswept, proc,
                 tally, db>>

\* getRateLimitStats(windowMs)
GetRateLimitStats(windowMs) ==
  /\ proc = "running"
  /\ LET g == getStore(globalStore, heap, windowMs)
         r == getStats(g.heap[g.obj].store, now)
     IN /\ Len(g.heap) <= MaxStores
        /\ globalStore' = g.globalStore
        /\ heap' = g.heap
        /\ req' = [NoAdmin EXCEPT !.kind = "stats", !.windowMs = windowMs,
                                  !.obj = g.obj, !.totalKeys = r.totalKeys,
                                  !.activeKeys = r.activeKeys]
  /\ UNCHANGED <<now, store, cfg, inflight, arrived, win, ev, unswept, proc,
                 tally, db>>

\* getRateLimitStatus(key, windowMs)
GetRateLimitStatus(key, windowMs) ==
  /\ proc = "running"
  /\ LET g == getStore(globalStore, heap, windowMs)
         r == getRateLimitStatus(g.heap[g.obj].store, key, windowMs, now)
     IN /\ Len(g.heap) <= MaxStores
        /\ globalStore' = g.globalStore
        /\ heap' = [g.heap EXCEPT ![g.obj].store = r.store]
        /\ req' = [NoAdmin EXCEPT !.kind = "status", !.key = key,
                                  !.windowMs = windowMs, !.obj = g.obj,
                                  !.count = r.count, !.isLimited = r.isLimited,
                                  !.remaining = r.remaining]
  /\ UNCHANGED <<now, store, cfg, inflight, arrived, win, ev, unswept, proc,
                 tally, db>>

\* cleanupRateLimit(): globalStore.destroy(), then globalStore = null
CleanupRateLimit ==
  /\ proc = "running"
  /\ globalStore # 0
  /\ heap' = [heap EXCEPT ![globalStore] =
                            [store |-> << >>, cleanupInterval |-> FALSE]]
  /\ globalStore' = 0
  /\ req' = [NoAdmin EXCEPT !.kind = "cleanup", !.obj = globalStore]
  /\ UNCHANGED <<now, store, cfg, inflight, arrived, win, ev, unswept, proc,
                 tally, db>>

\* the setInterval callback of MemoryStore object i fires
Sweep(i) ==
  /\ proc = "running"
  /\ heap[i].cleanupInterval
  /\ heap' = [heap EXCEPT ![i].store = CleanupStore(@, now)]
  /\ req' = [NoAdmin EXCEPT !.kind = "sweep", !.obj = i]
  /\ UNCHANGED <<now, store, cfg, inflight, arrived, win, ev, unswept,
                 globalStore, proc, tally, db>>

\* gracefulShutdown(signal): server.close, closeConnection, process.exit(0)
GracefulShutdown ==
  /\ proc = "running"
  /\ proc' = "exiting"
  /\ req' = [NoAdmin EXCEPT !.kind = "shutdown"]
  /\ UNCHANGED <<now, store, cfg, inflight, arrived, win, ev, unswept,
                 globalStore, heap, tally, db>>

\* the clock of the module; nothing of the module runs once the process
\* was asked to exit
AdminElapse ==
  /\ proc = "running"
  /\ now + AdminElapseMs <= MaxAdminElapsed
  /\ now' = now + AdminElapseMs
  /\ req' = NoAdmin
  /\ UNCHANGED <<store, cfg, inflight, arrived, win, ev, unswept, rest>>

AdminNext ==
  \/ \E p \in MountedPolicies : \E c \in AdminContexts(p) : GateRequest(p, c)
  \/ \E key \in AdminKeys, windowMs \in AdminWindows :
       ResetRateLimit(key, windowMs)
  \/ \E windowMs \in AdminWindows : GetRateLimitStats(windowMs)
  \/ \E key \in AdminKeys, windowMs \in AdminWindows :
       GetRateLimitStatus(key, windowMs)
  \/ CleanupRateLimit
  \/ \E i \in DOMAIN heap : Sweep(i)
  \/ GracefulShutdown
  \/ AdminElapse

AdminSpec == AdminInit /\ [][AdminNext]_vars

\* the window duration of the policy that created an entry
WindowOfEntry(e) == e.resetTime - e.firstRequest

\* C21 as stated: a MemoryStore holds the entries of policies of one window
\* duration only; resetRateLimit issued for a window duration removes no
\* entry that a policy with another window duration created, and
\* getRateLimitStats and getRateLimitStatus issued for a window duration
\* count and report only entries of that window duration.
C21_StorePerWindow ==
  [][ /\ \A i \in DOMAIN heap' :
           \A k1, k2 \in DOMAIN heap'[i].store :
             WindowOfEntry(heap'[i].store[k1]) = WindowOfEntry(heap'[i].store[k2])
      /\ req'.kind = "reset" =>
           \A i \in DOMAIN heap :
             \A k \in DOMAIN heap[i].store :
               WindowOfEntry(heap[i].store[k]) # req'.windowMs =>
                 /\ k \in DOMAIN heap'[i].store
                 /\ heap'[i].store[k] = heap[i].store[k]
      /\ req'.kind = "stats" =>
           \A k \in DOMAIN heap'[req'.obj].store :
             WindowOfEntry(heap'[req'.obj].store[k]) = req'.windowMs
      /\ (req'.kind = "status" /\ req'.count > 0) =>
           WindowOfEntry(heap'[req'.obj].store[req'.key]) = req'.windowMs
    ]_vars

\* C22: getRateLimitStats reports totalKeys = the number of entries in the
\* Map and activeKeys = the number of keys for which get(key) returns an
\* entry at that instant, so activeKeys <= totalKeys for every store in
\* every state; the call changes no entry of any store.
C22_StatsCountEntries ==
  [][ /\ \A i \in DOMAIN heap' :
           getStats(heap'[i].store, now').activeKeys
             <= getStats(heap'[i].store, now').totalKeys
      /\ req'.kind = "stats" =>
           LET s == heap'[req'.obj].store IN
           /\ req'.totalKeys = Cardinality(DOMAIN s)
           /\ req'.activeKeys =
                Cardinality({k \in DOMAIN s : StoreGet(s, k, now).hit})
           /\ req'.activeKeys <= req'.totalKeys
           /\ \A i \in DOMAIN heap : heap'[i] = heap[i]
    ]_vars

\* C22 witness: the stats of a store that holds an expired entry and an
\* entry that expires after this instant: two keys, one of them active.
C22_Witness ==
  /\ req.kind = "stats"
  /\ req.totalKeys = 2
  /\ req.activeKeys = 1
  /\ \E k \in DOMAIN heap[req.obj].store :
       heap[req.obj].store[k].resetTime = now

\* C27 as stated: the administrative functions work on the MemoryStore the
\* gates closed over, whatever was called before: resetRateLimit(key)
\* leaves no entry for the key in the gates' store, getRateLimitStats
\* counts the entries of the gates' store and getRateLimitStatus reports
\* the count the gates' store holds for the key.
C27_AdminOnGateStore ==
  [][ LET gates == heap[GateStore].store
          after == heap'[GateStore].store
      IN /\ req'.kind \in {"reset", "stats", "status"} => req'.obj = GateStore
         /\ req'.kind = "reset" => req'.key \notin DOMAIN after
         /\ req'.kind = "stats" => req'.totalKeys = Cardinality(DOMAIN after)
         /\ req'.kind = "status" =>
              req'.count = IF StoreGet(gates, req'.key, now).hit
                             THEN gates[req'.key].count ELSE 0
    ]_vars

\* the mounted policy whose key generator returns the key
OwnerOf(key) ==
  CASE key[1] = "auth" -> "auth"
    [] key[1] = "upload" -> "upload"
    [] OTHER -> "general"

\* C28 as stated: for a key with a live entry in the gates' store,
\* getRateLimitStatus reports isLimited exactly when the policy that owns
\* the key would reject the next counted request, and remaining as the
\* X-RateLimit-Remaining the gate emitted with the last counted request;
\* for a key with no live entry it reports count 0 and isLimited false.
C28_StatusAgreesWithGate ==
  [][ req'.kind = "status" =>
        LET s == heap[GateStore].store
            k == req'.key
            p == OwnerOf(k)
            live == StoreGet(s, k, now).hit
        IN /\ live =>
                /\ req'.isLimited <=> Exceeded(s[k].count + 1, MaxOf(p))
                /\ req'.remaining = Remaining(MaxOf(p), s[k].count)
           /\ ~live => (req'.count = 0 /\ ~req'.isLimited)
    ]_vars

\* C30 as stated: cleanupRateLimit leaves the store it destroyed with no
\* entries and with its sweep cancelled, a sweep fires only for a store
\* whose interval was not cancelled, and when the process is asked to exit
\* the graceful shutdown has cancelled every sweep.
C30_SweepCancelledOnShutdown ==
  /\ req.kind = "cleanup" =>
       /\ ~heap[req.obj].cleanupInterval
       /\ heap[req.obj].store = << >>
  /\ req.kind = "sweep" => heap[req.obj].cleanupInterval
  /\ proc = "exiting" => \A i \in DOMAIN heap : ~heap[i].cleanupInterval

----------------------------------------------------------------------------
\* The guarded mutation routes of the extensions: PUT /:id and DELETE /:id.
\* The owner lookup of the guard and the write of the handler are two
\* awaited statements; requests interleave between them.

MaxMutations == 3       \* mutation requests that arrive in one behaviour

ExtIds == {"e1", "e2"}  \* ids of the rows of the extensions table

\* request bodies of PUT /:id, as sent
RawBodies ==
  { [displayName |-> "x"], [displayName |-> "y", authorId |-> "u2"] }

\* z.object({displayName, ...}) of validationMiddleware.updateExtension: the
\* parsed body keeps the keys of the schema and drops every other key
updateExtensionSchema(raw) == [k \in DOMAIN raw \cap {"displayName"} |-> raw[k]]

\* an update that inserts the row when there is none
UpdateRowsUpsert(table, id, data, owner) ==
  LET old == IF id \in DOMAIN table THEN table[id]
             ELSE [authorId |-> owner, displayName |-> ""]
  IN [table |-> MapSet(table, id,
                       [k \in DOMAIN old |->
                          IF k \in DOMAIN data THEN data[k] ELSE old[k]]),
      returning |-> 1]

\* db.update(extensions).set(updateData).where(eq(extensions.id, id))
\* .returning(): the table afterwards and the number of rows returned.
\* owner is the principal of the request; the statement does not use it.
UpdateRows(table, id, data, owner) ==
  IF id \in DOMAIN table
    THEN [table |-> [table EXCEPT ![id] =
                       [k \in DOMAIN @ |->
                          IF k \in DOMAIN data THEN data[k] ELSE @[k]]],
          returning |-> 1]
    ELSE [table |-> table, returning |-> 0]

\* db.delete(extensions).where(eq(extensions.id, id)).returning()
DeleteRows(table, id) ==
  IF id \in DOMAIN table
    THEN [table |-> MapDelete(table, id), returning |-> 1]
    ELSE [table |-> table, returning |-> 0]

\* History of the last step of a mutation request.
NoMutation ==
  [kind |-> "none", op |-> NoValue, id |-> NoValue, user |-> NoUser,
   allowed |-> FALSE, status |-> 0]

MutationInit ==
  /\ now = 0
  /\ store = << >>
  /\ cfg \in ServerConfigs
  /\ inflight = EmptyBag
  /\ arrived = 0
  /\ win = << >>
  /\ ev = NoEvent
  /\ req = NoMutation
  /\ unswept = [store |-> << >>, ev |-> NoEvent]
  /\ globalStore = 0
  /\ heap = << >>
  /\ proc = "running"
  /\ tally = << >>
  /\ db = [id \in ExtIds |->
             [authorId |-> IF id = "e1" THEN "u1" ELSE "u2",
              displayName |-> "a"]]

\* authMiddleware, the validation and the guard of a mutation request: the
\* guard awaits getExtensionOwner and calls next() or throws.
Guard(user, id, op, raw) ==
  /\ arrived < MaxMutations
  /\ arrived' = arrived + 1
  /\ LET g == requireOwnershipOrAdmin(
                user, IF id \in DOMAIN db THEN db[id].authorId ELSE NoValue)
     IN /\ req' = [NoMutation EXCEPT !.kind = "guard", !.op = op, !.id = id,
                                     !.user = user, !.allowed = g.allowed,
                                     !.status = g.status]
        /\ inflight' =
             IF g.allowed
               THEN inflight (+) SetToBag({[user |-> user, id |-> id, op |-> op,
                                            body |-> updateExtensionSchema(raw)]})
               ELSE inflight
  /\ UNCHANGED <<now, store, cfg, win, ev, unswept, globalStore, heap, proc,
                 tally, db>>

\* The handler of a request the guard allowed runs its statement and
\* answers: 404 when no row was returned.
Write(q) ==
  /\ q \in BagToSet(inflight)
  /\ inflight' = inflight (-) SetToBag({q})
  /\ LET r == IF q.op = "update"
                THEN UpdateRows(db, q.id, q.body, q.user.id)
                ELSE DeleteRows(db, q.id)
     IN /\ db' = r.table
        /\ req' = [NoMutation EXCEPT
                     !.kind = "write", !.op = q.op, !.id = q.id,
                     !.user = q.user, !.allowed = TRUE,
                     !.status = IF r.returning = 0 THEN NotFound ELSE Ok]
  /\ UNCHANGED <<now, store, cfg, arrived, win, ev, unswept, globalStore,
                 heap, proc, tally>>

MutationNext ==
  \/ \E user \in Principals \cup {NoUser}, id \in ExtIds,
        op \in {"update", "delete"}, raw \in RawBodies :
       Guard(user, id, op, raw)
  \/ \E q \in BagToSet(inflight) : Write(q)

MutationSpec == MutationInit /\ [][MutationNext]_vars

----------------------------------------------------------------------------
\* the keys the gates of a block worked on
Touched(e) ==
  {e.gate[g].key : g \in {h \in Gates : e.gate[h].ran /\ ~e.gate[h].skipped}}
    \cup {e.un[g].key : g \in {h \in Gates : e.un[h].ran}}

\* C26: the gates of a request, on the way in and on the way out, change
\* only the entries of the keys they derived for it, and resetRateLimit(key)
\* changes only the entry of that key: every other entry of the store is
\* the same afterwards. Whether the first gate of a request rejects depends
\* only on the live count of the request's own key.
C26_OtherKeysUntouched ==
  [][ LET Same(k) ==
            IF k \in DOMAIN store
              THEN k \in DOMAIN store' /\ store'[k] = store[k]
              ELSE k \notin DOMAIN store'
      IN /\ ev'.kind \in {"arrive", "settle"} =>
              \A k \in Keys \ Touched(ev') : Same(k)
         /\ \A key \in Keys :
              Reset(key) => \A k \in Keys \ {key} : Same(k)
         /\ ev'.kind = "arrive" =>
              LET g == ev'.path[1]
                  k == ev'.gate[g].key
                  before == IF k \in DOMAIN store /\ store[k].resetTime >= now
                              THEN store[k].count ELSE 0
              IN ~ev'.gate[g].skipped =>
                   (ev'.gate[g].rejected <=> before + 1 > cfg[g].maxRequests)
    ]_vars

\* C26 witness: a request is rejected for its key while the entry of the
\* other key, below its limit, stands as it was.
C26_Witness ==
  /\ ev.kind = "arrive"
  /\ \E g \in Gates :
       /\ ev.gate[g].rejected
       /\ \E k \in Keys \ Touched(ev) : Live(k) /\ store[k].count = 1

----------------------------------------------------------------------------
\* One gate and the windows of its keys: which window each request was
\* counted in, and what became of the requests of the latest window of
\* each key. No administrative reset is called.

MaxWindowArrivals == 3  \* requests that arrive in one behaviour

\* History of the latest window of a key: end = its resetTime, n = the
\* requests counted in it, handled = those of them that reached the
\* handler, ok = those of them whose handler settled with a status < 400.
NoTally == [end |-> -1, n |-> 0, handled |-> 0, ok |-> 0]

\* History of the request that settled last: entry = the resetTime of the
\* RateLimitEntry its gate got from increment (line 155).
NoSettled == [settled |-> FALSE, entry |-> -1]

\* the one gate of the route
TheGate == 1

WindowInit ==
  /\ now = 0
  /\ store = << >>
  /\ cfg \in {c \in [Gates -> UNION {Configs(g) : g \in Gates}] :
                \A g \in Gates : c[g] \in Configs(g)}
  /\ inflight = EmptyBag
  /\ arrived = 0
  /\ win = [k \in Keys |-> NoWindow]
  /\ ev = NoEvent
  /\ req = NoSettled
  /\ unswept = [store |-> << >>, ev |-> NoEvent]
  /\ globalStore = 0
  /\ heap = << >>
  /\ proc = "running"
  /\ tally = [k \in Keys |-> NoTally]
  /\ db = << >>

\* A request arrives at the gate: lines 144-185.
WindowArrive(key, skip) ==
  /\ arrived < MaxWindowArrivals
  /\ arrived' = arrived + 1
  /\ LET path == <<TheGate>>
         w == RunChain([store |-> store, win |-> win, rejected |-> FALSE,
                        ev |-> [NoEvent EXCEPT !.kind = "arrive", !.path = path],
                        q |-> NewRequest(path)],
                       1, [g \in Gates |-> IF g = TheGate THEN key ELSE 0],
                       [g \in Gates |-> g = TheGate /\ skip])
         g == w.ev.gate[TheGate]
         h == IF g.calledNext THEN 1 ELSE 0
     IN /\ store' = w.store
        /\ win' = w.win
        /\ ev' = w.ev
        /\ inflight' = IF w.q.pc = "done" THEN inflight
                       ELSE inflight (+) SetToBag({[q |-> w.q,
                                                    entry |-> g.resetTime]})
        /\ tally' = IF g.skipped THEN tally
                    ELSE IF g.created
                      THEN [tally EXCEPT ![key] =
                              [end |-> g.resetTime, n |-> 1, handled |-> h,
                               ok |-> 0]]
                    ELSE [tally EXCEPT ![key].n = @ + 1,
                                       ![key].handled = @ + h]
  /\ req' = NoSettled
  /\ UNCHANGED <<now, cfg, unswept, globalStore, heap, proc, db>>

\* The handler of a request settles and its gate resumes: lines 186-209.
WindowSettle(e, thrown, status) ==
  /\ e \in BagToSet(inflight)
  /\ inflight' = inflight (-) SetToBag({e})
  /\ LET w == UnwindFrom(
                [store |-> store, win |-> win, rejected |-> FALSE,
                 ev |-> [NoEvent EXCEPT !.kind = "settle", !.path = e.q.path,
                            !.handled = TRUE, !.thrownIn = thrown,
                            !.status = status],
                 q |-> e.q],
                Len(e.q.path), thrown, status)
         key == e.q.key[TheGate]
         success == StatusCode(thrown, status) < ErrorFloor
     IN /\ store' = w.store
        /\ win' = w.win
        /\ ev' = w.ev
        /\ tally' = IF ~e.q.skipped[TheGate] /\ success
                       /\ tally[key].end = e.entry
                      THEN [tally EXCEPT ![key].ok = @ + 1]
                      ELSE tally
  /\ req' = [settled |-> TRUE, entry |-> e.entry]
  /\ UNCHANGED <<now, cfg, arrived, unswept, globalStore, heap, proc, db>>

WindowNext ==
  \/ \E key \in Keys, skip \in BOOLEAN : WindowArrive(key, skip)
  \/ \E e \in BagToSet(inflight), oc \in Outcomes :
       WindowSettle(e, oc[1], oc[2])
  \/ Cleanup
  \/ Tick

WindowSpec == WindowInit /\ [][WindowNext]_vars

\* C23: the compensating step of a gate reads the entry by the key alone:
\* when a decrement is due and the key has a live entry with a count above
\* 0, that entry goes down by one, whether or not it is the entry the
\* request was counted in; nothing else of the store changes.
C23_DecrementByKeyOnly ==
  [][ (ev'.kind = "settle" /\ ev'.un[TheGate].ran) =>
        LET u == ev'.un[TheGate]
            k == u.key
            live == k \in DOMAIN store /\ store[k].resetTime >= now
        IN /\ (u.due /\ live /\ store[k].count > 0) =>
                /\ store'[k].count = store[k].count - 1
                /\ store'[k].resetTime = store[k].resetTime
                /\ u.comp = 1
           /\ ~(u.due /\ live /\ store[k].count > 0) => u.comp = 0
           /\ live => u.prevReset = store[k].resetTime
    ]_vars

\* C23 witness: a request counted in a window that has expired settles
\* while the key has a newer window with one request counted in it; the
\* decrement takes the count of the newer window from 1 to 0.
C23_Witness ==
  /\ req.settled
  /\ ev.kind = "settle"
  /\ ev.un[TheGate].comp = 1
  /\ req.entry >= 0
  /\ req.entry < now
  /\ ev.un[TheGate].prevReset # req.entry
  /\ LET k == ev.un[TheGate].key
     IN /\ tally[k].end = ev.un[TheGate].prevReset
        /\ tally[k].n = 1
        /\ store[k].resetTime = tally[k].end
        /\ store[k].count = 0

\* C24: with both compensation flags off and no reset, of the requests
\* counted in one window of a key at most maxRequests reach the handler;
\* the entry's count is the number of requests counted in the window
\* (admitted and rejected) and never goes down while the entry is there.
C24_AtMostMaxReachHandler ==
  [][ (~cfg[TheGate].skipSuccessfulRequests
         /\ ~cfg[TheGate].skipFailedRequests) =>
        \A k \in Keys :
          /\ tally'[k].handled <= cfg[TheGate].maxRequests
          /\ k \in DOMAIN store' =>
               /\ store'[k].resetTime = tally'[k].end
               /\ store'[k].count = tally'[k].n
          /\ (k \in DOMAIN store /\ k \in DOMAIN store'
                /\ store'[k].resetTime = store[k].resetTime) =>
               store'[k].count >= store[k].count
    ]_vars

\* C24 witness: three requests were counted in the live window of a key of
\* a gate with both flags off; maxRequests of them reached the handler.
C24_Witness ==
  /\ ~cfg[TheGate].skipSuccessfulRequests
  /\ ~cfg[TheGate].skipFailedRequests
  /\ \E k \in Keys :
       /\ Live(k)
       /\ tally[k].n = MaxWindowArrivals
       /\ store[k].count = MaxWindowArrivals
       /\ tally[k].handled = cfg[TheGate].maxRequests

\* C25 as stated: with skipFailedRequests set, skipSuccessfulRequests unset
\* and no reset, of the requests counted in one window of a key at most
\* maxRequests have a handler that settled with a status below 400.
C25_SuccessesWithinLimit ==
  (cfg[TheGate].skipFailedRequests /\ ~cfg[TheGate].skipSuccessfulRequests) =>
    \A k \in Keys : tally[k].ok <= cfg[TheGate].maxRequests

====
